---- MODULE Spec2Model ----
(***************************************************************************)
(* State-machine model of src/loadbalancer.py (class LoadLoad): a reverse  *)
(* proxy that picks a backend by round robin over the healthy servers,     *)
(* keeps sticky sessions, and probes the servers' health in a background   *)
(* task.  asyncio runs one task at a time and switches only at an await,   *)
(* so every action below is the code between two awaits.                   *)
(***************************************************************************)
EXTENDS Integers, Sequences, FiniteSets, TLC

\* ---------------------------------------------------------------- bounds
MaxIndex == 4          \* cap on current_index (a Python int is unbounded)
MaxHeaders == 2        \* longest header list of a request or a response

\* ------------------------------------------------------- program constants
NumServers == 3        \* len(SERVERS)
StatusOK == 200        \* response.status == 200
StatusUnavailable == 503
StatusBadGateway == 502

\* ------------------------------------------------------------ value sets
None == 0              \* Optional[Server]: no server
NoneStr == "<None>"    \* Python None where a str is expected
Handlers == {1, 2}     \* handle_request coroutines that can be in flight

\* SERVERS: the configured pool; a Server is referred to by its position
SERVERS ==
  [i \in 1..NumServers |->
     [host |-> "localhost", port |-> 8000 + i, is_healthy |-> TRUE]]

\* every session id a request of the model can carry
SessionIds == {"a", "b", "r1", "r2"}

HeaderNames == {"Host", "HOST", "Accept", "Set-Cookie"}
HeaderValues == {"v1", "v2"}
HeaderPairs == HeaderNames \X HeaderValues

\* all header lists (multidict items) of at most n entries
HeaderLists(n) == UNION {[1..k -> HeaderPairs] : k \in 0..n}

\* outcomes of GET /health that carry a status
ProbeStatuses == {200, 204, 500}

NoResp == [status |-> 0, headers |-> <<>>, body |-> ""]
Resp503 == [status |-> StatusUnavailable, headers |-> <<>>,
            body |-> "No servers available"]
Resp502 == [status |-> StatusBadGateway, headers |-> <<>>,
            body |-> "Backend error"]

IdleTask == [pc |-> "idle", server |-> None, headers |-> <<>>,
             backend |-> NoResp, response |-> NoResp]

\* requests: request.cookies.get('session_id'), request.remote,
\* request.body_exists, request.headers.items()
RequestSet(cookies, remotes, bodies, hs) ==
  [cookie : cookies, remote : remotes, body_exists : bodies, headers : hs]

\* what a backend answers a proxied request with
ResponseSet(statuses, hs) ==
  [status : statuses, headers : hs, body : {"payload"}]

VARIABLES
  servers,          \* self.servers: sequence of Server records
  current_index,    \* self.current_index
  sticky_sessions,  \* self.sticky_sessions: session id -> server position
  probing,          \* _health_check_loop: 0 = between ticks, i = checking i
  tasks,            \* the handle_request coroutines
  pinned,           \* history: session -> the server _get_server gave it
                    \*          last, while that server has stayed healthy
  run,              \* history: servers _round_robin returned since the
                    \*          healthy set last changed
  runStart          \* history: current_index when the healthy set last changed

hist == <<pinned, run, runStart>>
vars == <<servers, current_index, sticky_sessions, probing, tasks,
          pinned, run, runStart>>

\* ------------------------------------------------------------- functions

\* Python truthiness of an Optional[str]
Truthy(s) == s /= NoneStr /\ s /= ""

\* str.lower() on the header names of the model
Lower(k) ==
  CASE k = "Host" -> "host"
    [] k = "HOST" -> "host"
    [] k = "host" -> "host"
    [] k = "Accept" -> "accept"
    [] k = "Set-Cookie" -> "set-cookie"
    [] OTHER -> k

\* position of key k in the pair list d, 0 when absent
RECURSIVE KeyPos(_, _, _)
KeyPos(d, k, i) ==
  IF i > Len(d) THEN 0
  ELSE IF d[i][1] = k THEN i
  ELSE KeyPos(d, k, i + 1)

\* d[k] = v on a Python dict kept as a list of pairs in insertion order
DictSet(d, k, v) ==
  LET p == KeyPos(d, k, 1)
  IN IF p = 0 THEN Append(d, <<k, v>>)
     ELSE [d EXCEPT ![p] = <<k, v>>]

\* {k: v for k, v in request.headers.items() if k.lower() != 'host'}
RECURSIVE StripHostFrom(_, _, _)
StripHostFrom(items, i, d) ==
  IF i > Len(items) THEN d
  ELSE IF Lower(items[i][1]) /= "host"
       THEN StripHostFrom(items, i + 1, DictSet(d, items[i][1], items[i][2]))
       ELSE StripHostFrom(items, i + 1, d)

StripHost(items) == StripHostFrom(items, 1, <<>>)

\* multidict[k]: the first value stored under k, names compared without case
RECURSIVE GetOne(_, _, _)
GetOne(items, k, i) ==
  IF i > Len(items) THEN NoneStr
  ELSE IF Lower(items[i][1]) = Lower(k) THEN items[i][2]
  ELSE GetOne(items, k, i + 1)

\* dict(response.headers): for every key of keys(), d[key] = headers[key]
RECURSIVE DictOfFrom(_, _, _)
DictOfFrom(items, i, d) ==
  IF i > Len(items) THEN d
  ELSE DictOfFrom(items, i + 1,
                  DictSet(d, items[i][1], GetOne(items, items[i][1], 1)))

DictOf(items) == DictOfFrom(items, 1, <<>>)

\* [s for s in self.servers if s.is_healthy], as positions in pool order
RECURSIVE HealthyFrom(_, _)
HealthyFrom(svs, i) ==
  IF i > Len(svs) THEN <<>>
  ELSE IF svs[i].is_healthy THEN <<i>> \o HealthyFrom(svs, i + 1)
  ELSE HealthyFrom(svs, i + 1)

HealthyServers(svs) == HealthyFrom(svs, 1)

\* _get_session_id that prefers the client address to the cookie
GetSessionIdRemoteFirst(req) ==
  IF Truthy(req.remote) THEN req.remote ELSE req.cookie

\* _get_session_id
GetSessionId(req) ==
  IF Truthy(req.cookie) THEN req.cookie ELSE req.remote

\* _round_robin that takes the cursor modulo the size of the pool
RoundRobinModPool(svs, idx) ==
  LET healthy_servers == HealthyServers(svs)
  IN IF healthy_servers = <<>>
     THEN [server |-> None, current_index |-> idx]
     ELSE [server |-> healthy_servers[((idx % Len(svs)) % Len(healthy_servers)) + 1],
           current_index |-> idx + 1]

\* _round_robin without the filter on is_healthy
RoundRobinNoFilter(svs, idx) ==
  IF Len(svs) = 0
  THEN [server |-> None, current_index |-> idx]
  ELSE [server |-> (idx % Len(svs)) + 1, current_index |-> idx + 1]

\* _round_robin that leaves the cursor where it is
RoundRobinNoAdvance(svs, idx) ==
  LET healthy_servers == HealthyServers(svs)
  IN IF healthy_servers = <<>>
     THEN [server |-> None, current_index |-> idx]
     ELSE [server |-> healthy_servers[(idx % Len(healthy_servers)) + 1],
           current_index |-> idx]

\* _round_robin that moves the cursor before it looks at the healthy list
RoundRobinAlwaysAdvance(svs, idx) ==
  LET healthy_servers == HealthyServers(svs)
  IN IF healthy_servers = <<>>
     THEN [server |-> None, current_index |-> idx + 1]
     ELSE [server |-> healthy_servers[(idx % Len(healthy_servers)) + 1],
           current_index |-> idx + 1]

\* _round_robin that keeps the cursor below the length of the healthy list
RoundRobinWrapsCursor(svs, idx) ==
  LET healthy_servers == HealthyServers(svs)
  IN IF healthy_servers = <<>>
     THEN [server |-> None, current_index |-> idx]
     ELSE [server |-> healthy_servers[(idx % Len(healthy_servers)) + 1],
           current_index |-> (idx + 1) % Len(healthy_servers)]

\* _round_robin: the server returned and the cursor afterwards
RoundRobin(svs, idx) ==
  LET healthy_servers == HealthyServers(svs)
  IN IF healthy_servers = <<>>
     THEN [server |-> None, current_index |-> idx]
     ELSE [server |-> healthy_servers[(idx % Len(healthy_servers)) + 1],
           current_index |-> idx + 1]

\* the branch of _get_server that returns the recorded server
CacheHit(session_id, svs, sticky) ==
  /\ session_id \in DOMAIN sticky
  /\ svs[sticky[session_id]].is_healthy

\* del d[k]
DictDel(d, k) == [x \in (DOMAIN d) \ {k} |-> d[x]]

\* d[k] = v on a dict kept as a function
DictPut(d, k, v) == [x \in (DOMAIN d) \cup {k} |-> IF x = k THEN v ELSE d[x]]

\* _get_server that returns the recorded server without reading is_healthy
GetServerNoHealthCheck(session_id, svs, sticky, idx) ==
  IF session_id \in DOMAIN sticky
  THEN [server |-> sticky[session_id], sticky_sessions |-> sticky,
        current_index |-> idx]
  ELSE LET rr == RoundRobin(svs, idx)
       IN [server |-> rr.server,
           sticky_sessions |-> IF rr.server /= None
                               THEN DictPut(sticky, session_id, rr.server)
                               ELSE sticky,
           current_index |-> rr.current_index]

\* _get_server that drops a stale entry and records nothing in its place
GetServerNoRecord(session_id, svs, sticky, idx) ==
  IF CacheHit(session_id, svs, sticky)
  THEN [server |-> sticky[session_id], sticky_sessions |-> sticky,
        current_index |-> idx]
  ELSE LET rr == RoundRobin(svs, idx)
       IN [server |-> rr.server,
           sticky_sessions |-> IF session_id \in DOMAIN sticky
                               THEN DictDel(sticky, session_id)
                               ELSE IF rr.server /= None
                               THEN DictPut(sticky, session_id, rr.server)
                               ELSE sticky,
           current_index |-> rr.current_index]

\* _get_server without the lookup: every request is a new selection
GetServerNoLookup(session_id, svs, sticky, idx) ==
  LET rr == RoundRobin(svs, idx)
  IN [server |-> rr.server,
      sticky_sessions |-> IF rr.server /= None
                          THEN DictPut(sticky, session_id, rr.server)
                          ELSE sticky,
      current_index |-> rr.current_index]

\* _get_server that deletes a stale entry only once it has a new server
GetServerKeepsStale(session_id, svs, sticky, idx) ==
  IF CacheHit(session_id, svs, sticky)
  THEN [server |-> sticky[session_id], sticky_sessions |-> sticky,
        current_index |-> idx]
  ELSE LET rr == RoundRobin(svs, idx)
       IN [server |-> rr.server,
           sticky_sessions |-> IF rr.server /= None
                               THEN DictPut(sticky, session_id, rr.server)
                               ELSE sticky,
           current_index |-> rr.current_index]

\* _get_server whose cache hit also takes a step of the cursor
GetServerHitAdvances(session_id, svs, sticky, idx) ==
  IF CacheHit(session_id, svs, sticky)
  THEN [server |-> sticky[session_id], sticky_sessions |-> sticky,
        current_index |-> idx + 1]
  ELSE LET st == IF session_id \in DOMAIN sticky
                 THEN DictDel(sticky, session_id) ELSE sticky
           rr == RoundRobin(svs, idx)
       IN [server |-> rr.server,
           sticky_sessions |-> IF rr.server /= None
                               THEN DictPut(st, session_id, rr.server)
                               ELSE st,
           current_index |-> rr.current_index]

\* _get_server: the server returned, the table and the cursor afterwards
GetServer(session_id, svs, sticky, idx) ==
  IF CacheHit(session_id, svs, sticky)
  THEN [server |-> sticky[session_id], sticky_sessions |-> sticky,
        current_index |-> idx]
  ELSE LET st == IF session_id \in DOMAIN sticky
                 THEN DictDel(sticky, session_id) ELSE sticky
           rr == RoundRobin(svs, idx)
       IN [server |-> rr.server,
           sticky_sessions |-> IF rr.server /= None
                               THEN DictPut(st, session_id, rr.server)
                               ELSE st,
           current_index |-> rr.current_index]

\* lines 83-86 of handle_request: the selection for a session id
SelectById(session_id, svs, sticky, idx) ==
  IF Truthy(session_id)
  THEN GetServer(session_id, svs, sticky, idx)
  ELSE LET rr == RoundRobin(svs, idx)
       IN [server |-> rr.server, sticky_sessions |-> sticky,
           current_index |-> rr.current_index]

\* lines 81-86 of handle_request: the selection for a request
Select(req, svs, sticky, idx) ==
  SelectById(GetSessionId(req), svs, sticky, idx)

\* ------------------------------------------------------------------ Init
Init ==
  /\ servers = SERVERS
  /\ current_index = 0
  /\ sticky_sessions = << >>
  /\ probing = 0
  /\ tasks = [h \in Handlers |-> IdleTask]
  /\ pinned = [s \in SessionIds |-> None]
  /\ run = <<>>
  /\ runStart = 0

\* --------------------------------------------------------------- actions

\* handle_request with an await between the lookup and the insert: a request
\* that starts while another one is in flight has made its lookup before
\* that one's insert, and so has seen an empty table
HandleRequestStaleLookup(h, req) ==
  /\ tasks[h].pc = "idle"
  /\ \E r \in {Select(req, servers,
                       IF \E o \in Handlers \ {h} :
                            tasks[o].pc \in {"read", "request", "body"}
                       THEN << >> ELSE sticky_sessions,
                       current_index)} :
     /\ r.current_index <= MaxIndex
     /\ current_index' = r.current_index
     /\ sticky_sessions' =
          IF Truthy(GetSessionId(req)) /\ r.server /= None
          THEN DictPut(sticky_sessions, GetSessionId(req), r.server)
          ELSE sticky_sessions
     /\ tasks' = [tasks EXCEPT ![h] =
          IF r.server = None
          THEN [IdleTask EXCEPT !.pc = "done", !.response = Resp503]
          ELSE [IdleTask EXCEPT
                  !.pc = IF req.body_exists THEN "read" ELSE "request",
                  !.server = r.server,
                  !.headers = StripHost(req.headers)]]
     /\ UNCHANGED <<servers, probing>>

\* handle_request up to its first await (lines 81-96): the selection, the
\* 503 answer, and the url and headers of the outbound request
HandleRequest(h, req) ==
  /\ tasks[h].pc = "idle"
  /\ \E r \in {Select(req, servers, sticky_sessions, current_index)} :
     /\ r.current_index <= MaxIndex
     /\ current_index' = r.current_index
     /\ sticky_sessions' = r.sticky_sessions
     /\ tasks' = [tasks EXCEPT ![h] =
          IF r.server = None
          THEN [IdleTask EXCEPT !.pc = "done", !.response = Resp503]
          ELSE [IdleTask EXCEPT
                  !.pc = IF req.body_exists THEN "read" ELSE "request",
                  !.server = r.server,
                  !.headers = StripHost(req.headers)]]
     /\ UNCHANGED <<servers, probing>>

\* a handler that looks at is_healthy again once the body is read, and
\* takes the next server of the rotation when its own is marked unhealthy
ReadBodyRechecks(h) ==
  /\ tasks[h].pc = "read"
  /\ IF servers[tasks[h].server].is_healthy
     THEN /\ tasks' = [tasks EXCEPT ![h].pc = "request"]
          /\ UNCHANGED current_index
     ELSE \E rr \in {RoundRobin(servers, current_index)} :
            /\ rr.current_index <= MaxIndex
            /\ current_index' = rr.current_index
            /\ tasks' = [tasks EXCEPT ![h] =
                 IF rr.server = None
                 THEN [IdleTask EXCEPT !.pc = "done", !.response = Resp503]
                 ELSE [tasks[h] EXCEPT !.pc = "request", !.server = rr.server]]
  /\ UNCHANGED <<servers, sticky_sessions, probing>>

\* await request.read() returns and session.request(...) is issued
ReadBody(h) ==
  /\ tasks[h].pc = "read"
  /\ tasks' = [tasks EXCEPT ![h].pc = "request"]
  /\ UNCHANGED <<servers, current_index, sticky_sessions, probing>>

\* the backend's status line and headers arrive (async with ... as response)
BackendResponds(h, resp) ==
  /\ tasks[h].pc = "request"
  /\ tasks' = [tasks EXCEPT ![h].pc = "body", ![h].headers = <<>>,
                            ![h].backend = resp]
  /\ UNCHANGED <<servers, current_index, sticky_sessions, probing>>

\* await response.read() returns; the backend's response is relayed
ReadResponse(h) ==
  /\ tasks[h].pc = "body"
  /\ tasks' = [tasks EXCEPT ![h] =
       [IdleTask EXCEPT
          !.pc = "done",
          !.response = [status |-> tasks[h].backend.status,
                        headers |-> DictOf(tasks[h].backend.headers),
                        body |-> tasks[h].backend.body]]]
  /\ UNCHANGED <<servers, current_index, sticky_sessions, probing>>

\* an except branch that also marks the server of the failed call unhealthy
ProxyFailsMarksDown(h) ==
  /\ tasks[h].pc \in {"read", "request", "body"}
  /\ tasks' = [tasks EXCEPT ![h] =
       [IdleTask EXCEPT !.pc = "done", !.response = Resp502]]
  /\ servers' = [servers EXCEPT ![tasks[h].server].is_healthy = FALSE]
  /\ UNCHANGED <<current_index, sticky_sessions, probing>>

\* except Exception: an await of the try block raises
ProxyFails(h) ==
  /\ tasks[h].pc \in {"read", "request", "body"}
  /\ tasks' = [tasks EXCEPT ![h] =
       [IdleTask EXCEPT !.pc = "done", !.response = Resp502]]
  /\ UNCHANGED <<servers, current_index, sticky_sessions, probing>>

\* the framework sends the returned response; the coroutine is gone
Finish(h) ==
  /\ tasks[h].pc = "done"
  /\ tasks' = [tasks EXCEPT ![h] = IdleTask]
  /\ UNCHANGED <<servers, current_index, sticky_sessions, probing>>

\* _health_check_loop: a tick starts with the check of the first server
Tick ==
  /\ probing = 0
  /\ Len(servers) > 0
  /\ probing' = 1
  /\ UNCHANGED <<servers, current_index, sticky_sessions, tasks>>

\* a check that, when it marks a server unhealthy, also drops the sessions
\* recorded on it
SetHealthEvicts(flag) ==
  /\ probing > 0
  /\ servers' = [servers EXCEPT ![probing].is_healthy = flag]
  /\ probing' = IF probing < Len(servers) THEN probing + 1 ELSE 0
  /\ sticky_sessions' =
       IF flag THEN sticky_sessions
       ELSE [s \in {x \in DOMAIN sticky_sessions : sticky_sessions[x] /= probing}
               |-> sticky_sessions[s]]
  /\ UNCHANGED <<current_index, tasks>>

\* server.is_healthy = flag, and the loop moves to the next server or sleeps
SetHealth(flag) ==
  /\ probing > 0
  /\ servers' = [servers EXCEPT ![probing].is_healthy = flag]
  /\ probing' = IF probing < Len(servers) THEN probing + 1 ELSE 0
  /\ UNCHANGED <<current_index, sticky_sessions, tasks>>

\* _check_health, try branch: the answer of GET /health has this status
CheckHealthResponse(status) == SetHealth(status = StatusOK)

\* an except branch that lets the exception out of _check_health: the loop
\* task ends with it (probing = -1) and no check is made any more
CheckHealthExceptionFatal ==
  /\ probing > 0
  /\ probing' = 0 - 1
  /\ UNCHANGED <<servers, current_index, sticky_sessions, tasks>>

\* _check_health, except branch: timeout or connection error
CheckHealthException == SetHealth(FALSE)

\* --------------------------------------------------------------- history
\* pinned after a selection for the request req returned server
PinnedAfterSelect(req, server) ==
  LET session_id == GetSessionId(req)
  IN IF ~Truthy(session_id) THEN pinned
     ELSE [pinned EXCEPT ![session_id] =
             IF server /= None /\ servers[server].is_healthy
             THEN server ELSE None]

\* pinned after the flag of server i became flag
PinnedAfterProbe(i, flag) ==
  [s \in SessionIds |-> IF pinned[s] = i /\ ~flag THEN None ELSE pinned[s]]

\* does the selection for session_id reach the call of _round_robin
RoundRobinCalled(session_id) ==
  ~(Truthy(session_id) /\ CacheHit(session_id, servers, sticky_sessions))

\* did the selection for req call _round_robin and get a server from it
RoundRobinServed(req) ==
  RoundRobinCalled(GetSessionId(req)) /\ HealthyServers(servers) /= <<>>

\* handle_request, with the history of the affinity
HandleRequestPinned(h, req) ==
  /\ HandleRequest(h, req)
  /\ pinned' = PinnedAfterSelect(
         req, Select(req, servers, sticky_sessions, current_index).server)
  /\ UNCHANGED <<run, runStart>>

\* a finished health check, with the history of the affinity
SetHealthPinned(flag) ==
  /\ SetHealth(flag)
  /\ pinned' = PinnedAfterProbe(probing, flag)
  /\ UNCHANGED <<run, runStart>>

\* handle_request, with the history of the rotation
HandleRequestRun(h, req) ==
  /\ HandleRequest(h, req)
  /\ run' = IF RoundRobinServed(req)
            THEN Append(run,
                   Select(req, servers, sticky_sessions, current_index).server)
            ELSE run
  /\ UNCHANGED <<pinned, runStart>>

\* a finished health check, with the history of the rotation
SetHealthRun(flag) ==
  /\ SetHealth(flag)
  /\ run' = IF servers[probing].is_healthy /= flag THEN <<>> ELSE run
  /\ runStart' = IF servers[probing].is_healthy /= flag
                 THEN current_index ELSE runStart
  /\ UNCHANGED pinned

\* handle_request, with both histories
HandleRequestBoth(h, req) ==
  /\ HandleRequest(h, req)
  /\ pinned' = PinnedAfterSelect(req, tasks'[h].server)
  /\ run' = IF RoundRobinServed(req)
            THEN Append(run, tasks'[h].server)
            ELSE run
  /\ UNCHANGED runStart

\* a finished health check, with both histories
SetHealthBoth(flag) ==
  /\ SetHealth(flag)
  /\ pinned' = PinnedAfterProbe(probing, flag)
  /\ run' = IF servers[probing].is_healthy /= flag THEN <<>> ELSE run
  /\ runStart' = IF servers[probing].is_healthy /= flag
                 THEN current_index ELSE runStart

\* ------------------------------------------------------- specifications

\* Spec: two handlers and the prober, interleaved at every await
SpecRequests == RequestSet({NoneStr, "", "a"}, {NoneStr, "r1"}, BOOLEAN, {<<>>})
SpecResponses == ResponseSet({200}, {<<>>})

Next ==
  \/ \E h \in Handlers : \E req \in SpecRequests :
        HandleRequest(h, req) /\ UNCHANGED hist
  \/ \E h \in Handlers : ReadBody(h) /\ UNCHANGED hist
  \/ \E h \in Handlers : \E resp \in SpecResponses :
        BackendResponds(h, resp) /\ UNCHANGED hist
  \/ \E h \in Handlers : ReadResponse(h) /\ UNCHANGED hist
  \/ \E h \in Handlers : ProxyFails(h) /\ UNCHANGED hist
  \/ \E h \in Handlers : Finish(h) /\ UNCHANGED hist
  \/ Tick /\ UNCHANGED hist
  \/ \E status \in ProbeStatuses : CheckHealthResponse(status) /\ UNCHANGED hist
  \/ CheckHealthException /\ UNCHANGED hist

Spec == Init /\ [][Next]_vars

\* SpecAffinity: one handler at a time and the prober, with the history of
\* which session holds which server
AffinityRequests == RequestSet({NoneStr, "a", "b"}, {NoneStr, "r1"}, {FALSE}, {<<>>})

NextAffinity ==
  \/ \E req \in AffinityRequests : HandleRequestPinned(1, req)
  \/ \E resp \in SpecResponses : BackendResponds(1, resp) /\ UNCHANGED hist
  \/ ReadResponse(1) /\ UNCHANGED hist
  \/ ProxyFails(1) /\ UNCHANGED hist
  \/ Finish(1) /\ UNCHANGED hist
  \/ Tick /\ UNCHANGED hist
  \/ \E status \in ProbeStatuses : SetHealthPinned(status = StatusOK)
  \/ SetHealthPinned(FALSE)

SpecAffinity == Init /\ [][NextAffinity]_vars

\* SpecRotation: one handler at a time and the prober, four sessions, with
\* the history of what _round_robin returned
RotationRequests ==
  RequestSet({NoneStr, "a", "b"}, {NoneStr, "r1", "r2"}, {FALSE}, {<<>>})

NextRotation ==
  \/ \E req \in RotationRequests : HandleRequestRun(1, req)
  \/ \E resp \in SpecResponses : BackendResponds(1, resp) /\ UNCHANGED hist
  \/ ReadResponse(1) /\ UNCHANGED hist
  \/ ProxyFails(1) /\ UNCHANGED hist
  \/ Finish(1) /\ UNCHANGED hist
  \/ Tick /\ UNCHANGED hist
  \/ \E status \in ProbeStatuses : SetHealthRun(status = StatusOK)
  \/ SetHealthRun(FALSE)

SpecRotation == Init /\ [][NextRotation]_vars

\* SpecConcurrent: two handlers in flight at once and the prober, with both
\* histories
ConcurrentRequests == RequestSet({NoneStr, "a"}, {NoneStr}, {FALSE}, {<<>>})

NextConcurrent ==
  \/ \E h \in Handlers : \E req \in ConcurrentRequests : HandleRequestBoth(h, req)
  \/ \E h \in Handlers : \E resp \in SpecResponses :
        BackendResponds(h, resp) /\ UNCHANGED hist
  \/ \E h \in Handlers : ReadResponse(h) /\ UNCHANGED hist
  \/ \E h \in Handlers : ProxyFails(h) /\ UNCHANGED hist
  \/ \E h \in Handlers : Finish(h) /\ UNCHANGED hist
  \/ Tick /\ UNCHANGED hist
  \/ \E status \in ProbeStatuses : SetHealthBoth(status = StatusOK)
  \/ SetHealthBoth(FALSE)

SpecConcurrent == Init /\ [][NextConcurrent]_vars

\* SpecProber: one handler and the prober. The event loop resumes the loop
\* task when its sleep of 10 s is over (Tick), and every check ends, with an
\* answer or with the exception of the 5 s timeout (CheckHealth), so both
\* are taken whenever they stay enabled.
ProberRequests == RequestSet({NoneStr, "a"}, {NoneStr}, BOOLEAN, {<<>>})

\* the check of the server at hand ends, one way or the other
CheckHealth ==
  \/ \E status \in ProbeStatuses : CheckHealthResponse(status)
  \/ CheckHealthException

NextProber ==
  \/ \E req \in ProberRequests : HandleRequest(1, req) /\ UNCHANGED hist
  \/ ReadBody(1) /\ UNCHANGED hist
  \/ \E resp \in SpecResponses : BackendResponds(1, resp) /\ UNCHANGED hist
  \/ ReadResponse(1) /\ UNCHANGED hist
  \/ ProxyFails(1) /\ UNCHANGED hist
  \/ Finish(1) /\ UNCHANGED hist
  \/ Tick /\ UNCHANGED hist
  \/ \E status \in ProbeStatuses : CheckHealthResponse(status) /\ UNCHANGED hist
  \/ CheckHealthException /\ UNCHANGED hist

SpecProber ==
  /\ Init
  /\ [][NextProber]_vars
  /\ WF_vars(Tick /\ UNCHANGED hist)
  /\ WF_vars(CheckHealth /\ UNCHANGED hist)

\* SpecStartup: LoadLoad(servers) for every list the constructor takes, here
\* the prefixes of SERVERS, the empty list included; then one handler and
\* the prober
Pools == {SubSeq(SERVERS, 1, n) : n \in 0..NumServers}

InitStartup ==
  /\ servers \in Pools
  /\ current_index = 0
  /\ sticky_sessions = << >>
  /\ probing = 0
  /\ tasks = [h \in Handlers |-> IdleTask]
  /\ pinned = [s \in SessionIds |-> None]
  /\ run = <<>>
  /\ runStart = 0

SpecStartup == InitStartup /\ [][NextProber]_vars

\* SpecProxy: one request at a time with every header list of the model;
\* the pool is as the prober left it, all servers up or all servers down
ProxyRequests ==
  RequestSet({NoneStr, ""}, {NoneStr, "r1"}, BOOLEAN, HeaderLists(MaxHeaders))
ProxyResponses == ResponseSet({200, 503}, HeaderLists(MaxHeaders))

InitProxy ==
  /\ \E up \in BOOLEAN :
       servers = [i \in 1..NumServers |-> [SERVERS[i] EXCEPT !.is_healthy = up]]
  /\ current_index = 0
  /\ sticky_sessions = << >>
  /\ probing = 0
  /\ tasks = [h \in Handlers |-> IdleTask]
  /\ pinned = [s \in SessionIds |-> None]
  /\ run = <<>>
  /\ runStart = 0

NextProxy ==
  \/ \E req \in ProxyRequests : HandleRequest(1, req) /\ UNCHANGED hist
  \/ ReadBody(1) /\ UNCHANGED hist
  \/ \E resp \in ProxyResponses : BackendResponds(1, resp) /\ UNCHANGED hist
  \/ ReadResponse(1) /\ UNCHANGED hist
  \/ ProxyFails(1) /\ UNCHANGED hist
  \/ Finish(1) /\ UNCHANGED hist

SpecProxy == InitProxy /\ [][NextProxy]_vars

\* ----------------------------------------------------------------- claims

\* the healthy servers as a set
HealthySet == {i \in 1..Len(servers) : servers[i].is_healthy}

\* the session ids the requests of each specification carry (None included)
SpecIds == {GetSessionId(req) : req \in SpecRequests}
RotationIds == {GetSessionId(req) : req \in RotationRequests}

\* the cookie and the client address of the requests of Spec
SpecKeys ==
  {[cookie |-> req.cookie, remote |-> req.remote] : req \in SpecRequests}

\* the server a selection step of handler h returned (None with the 503)
Returned(h) == tasks'[h].server

\* handler h takes up a request in this step
Started(h) == tasks[h].pc = "idle" /\ tasks'[h].pc /= "idle"

\* handler h takes up a request in this step, and cursor, table and server
\* returned are those of the selection for session_id
Selected(h, session_id) ==
  /\ Started(h)
  /\ \E r \in {SelectById(session_id, servers, sticky_sessions, current_index)} :
       /\ current_index' = r.current_index
       /\ sticky_sessions' = r.sticky_sessions
       /\ Returned(h) = r.server

\* handler h takes up the request req in this step
Serves(h, req) == Started(h) /\ HandleRequest(h, req)

\* C1 (P1 affinity stability): once _get_server has given session s the
\* server B, every later _get_server call for s returns B as long as B has
\* stayed healthy, whatever other requests and probes happened in between.
C1_AffinityStable ==
  [][\A s \in SessionIds :
       (pinned[s] /= None /\ Selected(1, s)) => Returned(1) = pinned[s]]_vars

\* session a got server 1, session b got server 2, server 3 failed a check,
\* and a later request was routed to server 1 without a new selection
C1_Witness ==
  /\ pinned["a"] = 1
  /\ pinned["b"] = 2
  /\ ~servers[3].is_healthy
  /\ current_index = 2
  /\ tasks[1].pc = "request"
  /\ tasks[1].server = 1

\* C2 (P2 affinity invalidation): when the server recorded for a session is
\* marked unhealthy, the next request of that session discards the stale
\* entry; if some server is healthy the request gets a different, healthy
\* server and the table records it, otherwise the session has no entry.
C2_AffinityInvalidation ==
  [][\A h \in Handlers : \A s \in SessionIds :
       (/\ s \in DOMAIN sticky_sessions
        /\ ~servers[sticky_sessions[s]].is_healthy
        /\ Selected(h, s))
       => IF HealthySet /= {}
          THEN /\ Returned(h) \in HealthySet
               /\ Returned(h) /= sticky_sessions[s]
               /\ s \in DOMAIN sticky_sessions'
               /\ sticky_sessions'[s] = Returned(h)
          ELSE /\ Returned(h) = None
               /\ s \notin DOMAIN sticky_sessions']_vars

\* session a held server 1 (its first request is still in flight there),
\* server 1 failed a check, and the session's next request was recorded on
\* server 3
C2_Witness ==
  /\ DOMAIN sticky_sessions = {"a"}
  /\ sticky_sessions["a"] = 3
  /\ HealthySet = {2, 3}
  /\ current_index = 2
  /\ tasks[1].pc = "read" /\ tasks[1].server = 1
  /\ tasks[2].pc = "request" /\ tasks[2].server = 3

\* C3 (P3 round-robin fairness): while the healthy set stays the same N
\* servers, the calls of _round_robin return the healthy servers in cyclic
\* pool order from healthy[current_index mod N] on, so any N calls in a row
\* return each healthy server exactly once.
C3_RoundRobinFair ==
  LET healthy == HealthyServers(servers)
      N == Len(healthy)
  IN /\ run /= <<>> => N > 0
     /\ \A j \in 1..Len(run) :
          run[j] = healthy[((runStart + j - 1) % N) + 1]
     /\ \A k \in 0..(Len(run) - N) :
          N > 0 => {run[k + i] : i \in 1..N} = HealthySet

\* a full round of three calls that started at cursor 1, and so wrapped
C3_Witness ==
  /\ HealthySet = {1, 2, 3}
  /\ runStart = 1
  /\ Len(run) = 3

\* C4 (P4 no-backend fallback): when every server is unhealthy, every
\* selection (anonymous, new session, recorded session) yields no server,
\* and handle_request returns 503 at once, with no outbound call.
C4_NoBackendFallback ==
  [][\A h \in Handlers :
       (Started(h) /\ HealthySet = {})
       => /\ Returned(h) = None
          /\ tasks'[h].pc = "done"
          /\ tasks'[h].response = Resp503]_vars

\* every server is down, session a had a server before, and both handlers
\* have answered 503
C4_Witness ==
  /\ HealthySet = {}
  /\ current_index = 1
  /\ sticky_sessions = << >>
  /\ \A h \in Handlers : tasks[h].pc = "done" /\ tasks[h].response = Resp503

\* C5: a server returned by _round_robin or _get_server is healthy in the
\* state in which the selection is made.
C5_SelectedIsHealthy ==
  [][\A h \in Handlers :
       (Started(h) /\ Returned(h) /= None)
       => servers[Returned(h)].is_healthy]_vars

\* server 2 failed its check after the first request went to server 1; the
\* next request skipped server 2 and went to server 3
C5_Witness ==
  /\ HealthySet = {1, 3}
  /\ current_index = 2
  /\ sticky_sessions = << >>
  /\ tasks[1].pc = "request" /\ tasks[1].server = 1
  /\ tasks[2].pc = "request" /\ tasks[2].server = 3

\* C6 (shared rotation): from current_index = 0 with the three servers
\* healthy and the healthy set unchanged, the selections go to 1,2,3,1,...
\* in arrival order; an assignment on an affinity miss and an anonymous
\* selection each take exactly one step of the one cursor, and a request
\* served from the table takes none.
C6_State ==
  (runStart = 0 /\ HealthySet = 1..NumServers)
  => /\ current_index = Len(run)
     /\ \A j \in 1..Len(run) : run[j] = ((j - 1) % NumServers) + 1

C6_Step ==
  \A s \in RotationIds :
    Selected(1, s)
    => IF RoundRobinCalled(s) /\ HealthySet /= {}
       THEN /\ current_index' = current_index + 1
            /\ Returned(1) =
                 HealthyServers(servers)[
                   (current_index % Len(HealthyServers(servers))) + 1]
       ELSE current_index' = current_index

\* C6: the rotation from cursor 0 (C6_State) and the one step of the one
\* cursor per call of _round_robin (C6_Step), together
C6_SharedRotation == []C6_State /\ [][C6_Step]_vars

\* four requests with four new session ids were routed to 1,2,3,1
C6_Witness ==
  /\ run = <<1, 2, 3, 1>>
  /\ runStart = 0
  /\ DOMAIN sticky_sessions = {"a", "b", "r1", "r2"}
  /\ HealthySet = 1..NumServers

\* C7 (response-code contract): handle_request returns 503 exactly when the
\* selection returned no server, 502 exactly when a server was selected and
\* an await of the outbound call failed, and otherwise the backend's
\* status, headers and body unchanged.
C7_Step ==
  /\ Started(1)
     => IF Returned(1) = None
        THEN tasks'[1].pc = "done" /\ tasks'[1].response = Resp503
        ELSE tasks'[1].pc \in {"read", "request"}
  /\ ProxyFails(1) => tasks'[1].pc = "done" /\ tasks'[1].response = Resp502
  /\ ReadResponse(1)
     => /\ tasks'[1].pc = "done"
        /\ tasks'[1].response = tasks[1].backend

\* C7: every step of handle_request keeps the response-code contract
C7_ResponseContract == [][C7_Step]_vars

\* the selection of handler h looked up and recorded under key id (no key
\* at all, and no lookup, when id is None)
KeyedBy(h, id) ==
  IF id = NoneStr
  THEN sticky_sessions' = sticky_sessions
  ELSE /\ CacheHit(id, servers, sticky_sessions)
          => Returned(h) = sticky_sessions[id]
       /\ Returned(h) /= None
          => id \in DOMAIN sticky_sessions' /\ sticky_sessions'[id] = Returned(h)
       /\ \A x \in (DOMAIN sticky_sessions') \ {id} :
            x \in DOMAIN sticky_sessions /\ sticky_sessions'[x] = sticky_sessions[x]

\* C8 as stated: the affinity lookup uses the session_id cookie whenever
\* the cookie is present, for every cookie value, and the client address
\* only when the cookie is absent.
C8_CookieWheneverPresent ==
  [][\A h \in Handlers : \A req \in SpecKeys :
       Selected(h, GetSessionId(req))
       => KeyedBy(h, IF req.cookie /= NoneStr
                     THEN req.cookie ELSE req.remote)]_vars

\* C8 (session identifier derivation), amended: the affinity lookup uses
\* the session_id cookie when the cookie is present and not empty, and the
\* client address when the cookie is absent or empty; with neither, the
\* request is anonymous and the table is not touched.
C8_SessionId ==
  [][\A h \in Handlers : \A req \in SpecKeys :
       Selected(h, GetSessionId(req))
       => KeyedBy(h, IF req.cookie /= NoneStr /\ req.cookie /= ""
                     THEN req.cookie ELSE req.remote)]_vars

\* one request was recorded under its cookie and one under its address
C8_Witness ==
  /\ DOMAIN sticky_sessions = {"a", "r1"}
  /\ sticky_sessions["a"] = 1
  /\ sticky_sessions["r1"] = 2
  /\ current_index = 2
  /\ tasks[1].pc = "request" /\ tasks[1].server = 1
  /\ tasks[2].pc = "request" /\ tasks[2].server = 2

\* is the pair <<k, v>> an entry of the header list
HasHeader(items, k, v) == \E i \in 1..Len(items) : items[i] = <<k, v>>

\* C9 (P5 header stripping): the headers of the outbound request contain no
\* Host header under any capitalisation, and contain every other inbound
\* header with its value unchanged.
C9_Step ==
  \A req \in ProxyRequests :
    (Serves(1, req) /\ Returned(1) /= None)
    => /\ \A i \in 1..Len(tasks'[1].headers) :
            Lower(tasks'[1].headers[i][1]) /= "host"
       /\ \A j \in 1..Len(req.headers) :
            Lower(req.headers[j][1]) /= "host"
            => HasHeader(tasks'[1].headers, req.headers[j][1], req.headers[j][2])

\* C9: every outbound request has the inbound headers less Host
C9_HeaderStripping == [][C9_Step]_vars

\* C10 as stated: every call of _round_robin increases current_index by
\* one, also a call that returns no server because no server is healthy.
C10_AdvanceRegardless ==
  [][\A h \in Handlers : \A s \in SpecIds :
       (RoundRobinCalled(s) /\ Selected(h, s))
       => current_index' = current_index + 1]_vars

\* C10 (cursor advance per selection), amended: a call of _round_robin that
\* returns a server increases current_index by exactly one; a call that
\* returns no server, because no server is healthy, leaves it unchanged.
C10_CursorAdvance ==
  [][\A h \in Handlers : \A s \in SpecIds :
       (RoundRobinCalled(s) /\ Selected(h, s))
       => IF HealthySet /= {}
          THEN Returned(h) /= None /\ current_index' = current_index + 1
          ELSE Returned(h) = None /\ current_index' = current_index]_vars

\* two selections moved the cursor to 2, then every server failed and a
\* third request was answered 503 with the cursor still at 2
C10_Witness ==
  /\ HealthySet = {}
  /\ current_index = 2
  /\ tasks[1].pc = "request"
  /\ tasks[2].pc = "done" /\ tasks[2].response = Resp503

\* the session ids the requests of SpecConcurrent carry (None included)
ConcurrentIds == {GetSessionId(req) : req \in ConcurrentRequests}

\* C11 (cursor atomicity): with two handlers and the prober interleaved at
\* their awaits, the j-th call of _round_robin since the healthy set last
\* changed has read the cursor value runStart + j - 1, so no two calls read
\* the same value, and after k calls that returned a server the cursor has
\* advanced by exactly k.
C11_State ==
  LET healthy == HealthyServers(servers)
  IN /\ current_index = runStart + Len(run)
     /\ \A j \in 1..Len(run) :
          /\ healthy /= <<>>
          /\ run[j] = healthy[((runStart + j - 1) % Len(healthy)) + 1]

\* read and increment are one step: a step moves the cursor by one when it
\* is a call of _round_robin that returns a server, and not at all otherwise
C11_Step ==
  /\ current_index' \in {current_index, current_index + 1}
  /\ current_index' = current_index + 1
     <=> \E h \in Handlers : \E s \in ConcurrentIds :
           /\ HealthySet /= {}
           /\ RoundRobinCalled(s)
           /\ Selected(h, s)

\* C11: the cursor counts the calls of _round_robin that returned a server
\* (C11_State), one indivisible step each (C11_Step)
C11_CursorAtomicity == []C11_State /\ [][C11_Step]_vars

\* both handlers are in flight with the servers of two calls in a row, and
\* the cursor stands at 2
C11_Witness ==
  /\ run = <<1, 2>>
  /\ runStart = 0
  /\ current_index = 2
  /\ tasks[1].pc = "request" /\ tasks[1].server = 1
  /\ tasks[2].pc = "request" /\ tasks[2].server = 2

\* C12 (atomic lookup-and-assign): lookup, removal of a stale entry,
\* selection and insert are one step. A request of a session whose server
\* has stayed healthy since it was assigned, also one that arrives while the
\* request that made the assignment is still in flight, is routed to that
\* server, creates no entry and leaves the cursor where it is; and every
\* change of the table is the complete outcome of one selection.
C12_Step ==
  /\ \A h \in Handlers : \A req \in ConcurrentRequests :
       (/\ Truthy(GetSessionId(req))
        /\ pinned[GetSessionId(req)] /= None
        /\ Serves(h, req))
       => /\ Returned(h) = pinned[GetSessionId(req)]
          /\ current_index' = current_index
          /\ sticky_sessions' = sticky_sessions
  /\ sticky_sessions' /= sticky_sessions
     => \E h \in Handlers : \E s \in ConcurrentIds :
          /\ Truthy(s)
          /\ Started(h)
          /\ sticky_sessions' = IF Returned(h) /= None
                                THEN DictPut(sticky_sessions, s, Returned(h))
                                ELSE DictDel(sticky_sessions, s)

\* C12: every step keeps the lookup-and-assign in one piece
C12_AtomicAssign == [][C12_Step]_vars

\* two requests of the new session a are in flight at once, both at server
\* 1, with one entry in the table and one step of the cursor
C12_Witness ==
  /\ DOMAIN sticky_sessions = {"a"}
  /\ sticky_sessions["a"] = 1
  /\ pinned["a"] = 1
  /\ run = <<1>>
  /\ current_index = 1
  /\ tasks[1].pc = "request" /\ tasks[1].server = 1
  /\ tasks[2].pc = "request" /\ tasks[2].server = 1

\* C13 (single writer of health flags): is_healthy changes only in a step
\* of _check_health, and only for the server being checked; no step of
\* handle_request (selection, forwarding, the 502 of a failed call) changes
\* a flag, and host and port never change.
C13_Step ==
  /\ Len(servers') = Len(servers)
  /\ \A i \in 1..Len(servers) :
       /\ servers'[i].host = servers[i].host
       /\ servers'[i].port = servers[i].port
       /\ servers'[i].is_healthy /= servers[i].is_healthy
          => /\ probing = i
             /\ tasks' = tasks
             /\ \/ CheckHealthException
                \/ \E status \in ProbeStatuses : CheckHealthResponse(status)
  /\ \A h \in Handlers : tasks'[h] /= tasks[h] => servers' = servers

\* C13: every step keeps to the single writer
C13_SingleWriter == [][C13_Step]_vars

\* the call to server 1 failed and was answered 502, the other request is
\* still with server 2, and all three servers are still marked healthy
C13_Witness ==
  /\ tasks[1].pc = "done" /\ tasks[1].response = Resp502
  /\ tasks[2].pc = "body" /\ tasks[2].server = 2
  /\ current_index = 2
  /\ HealthySet = 1..NumServers

\* a success status code: 2xx
IsSuccess(status) == status \div 100 = 2

\* C14 (health-check outcome): after the check of a server ends, the server
\* is healthy if and only if an answer with a success status arrived in
\* time: every success status marks it healthy, and every other status,
\* every timeout and every connection error marks it unhealthy, whatever
\* the flag was before.
C14_Step ==
  /\ \A status \in ProbeStatuses :
       (probing > 0 /\ CheckHealthResponse(status))
       => servers'[probing].is_healthy = IsSuccess(status)
  /\ (probing > 0 /\ CheckHealthException)
     => ~servers'[probing].is_healthy

\* C14: every finished check sets the flag by the success of the answer
C14_HealthOutcome == [][C14_Step]_vars

\* the position of the loop after the check of server i
AfterCheck(i) == IF i < Len(servers) THEN i + 1 ELSE 0

\* C15 (prober progress), the order within a tick: a tick starts with the
\* first server, and the end of a check, whether it set the flag, cleared
\* it or raised, takes the loop to the next server of the pool, and after
\* the last server to the sleep; the loop never leaves this cycle.
C15_Step ==
  /\ probing \in 0..Len(servers)
  /\ probing' /= probing
     => probing' = IF probing = 0 THEN 1 ELSE AfterCheck(probing)
  /\ \A i \in 1..Len(servers) :
       (probing = i /\ (servers' /= servers \/ CheckHealth))
       => probing' = AfterCheck(i)

\* C15: the cycle of the loop (C15_Step), and, the loop being resumed
\* after its sleep and every check ending, the check of every server ends
\* infinitely often
C15_ProberProgress ==
  /\ [][C15_Step]_vars
  /\ \A i \in 1..NumServers : []<><<probing = i /\ probing' = AfterCheck(i)>>_vars

\* a whole tick went by in which the checks of servers 2 and 3 failed, and
\* the next tick has checked server 1 and is checking server 2
C15_Witness ==
  /\ probing = 2
  /\ servers[1].is_healthy
  /\ ~servers[2].is_healthy
  /\ ~servers[3].is_healthy

\* C16 (lazy invalidation only): the entry of a session is removed or
\* changed only by a lookup for that session that finds the recorded server
\* unhealthy. Checks, lookups for other sessions, anonymous selections and
\* failed calls leave every entry as it is, so a stale entry stays until
\* its session is looked up, and stays for good if the server is healthy
\* again by then.
C16_Step ==
  /\ \A s \in DOMAIN sticky_sessions :
       (s \notin DOMAIN sticky_sessions' \/ sticky_sessions'[s] /= sticky_sessions[s])
       => /\ ~servers[sticky_sessions[s]].is_healthy
          /\ \E h \in Handlers : Selected(h, s)
  /\ sticky_sessions' /= sticky_sessions => \E h \in Handlers : Started(h)

\* C16: every step keeps to the lazy invalidation
C16_LazyInvalidation == [][C16_Step]_vars

\* server 1 failed a check after session a was recorded on it; since then
\* another session was assigned and a call failed with 502, and the stale
\* entry of a is still in the table
C16_Witness ==
  /\ DOMAIN sticky_sessions = {"a", "r1"}
  /\ sticky_sessions["a"] = 1
  /\ sticky_sessions["r1"] = 3
  /\ HealthySet = {2, 3}
  /\ current_index = 2
  /\ tasks[1].pc = "idle"
  /\ tasks[2].pc = "done" /\ tasks[2].response = Resp502

\* the entries of the table other than that of session_id stay as they are
OthersUnchanged(session_id) ==
  /\ (DOMAIN sticky_sessions') \ {session_id} = (DOMAIN sticky_sessions) \ {session_id}
  /\ \A x \in (DOMAIN sticky_sessions) \ {session_id} :
       sticky_sessions'[x] = sticky_sessions[x]

\* C17 (no mapping on unavailability): when _get_server(s) returns no
\* server, the table has no entry for s afterwards, a stale one being
\* removed and nothing recorded; when it returns server B, the table maps s
\* to B afterwards; the entries of other sessions are unchanged either way.
C17_Step ==
  \A h \in Handlers : \A s \in SpecIds :
    (Truthy(s) /\ Selected(h, s))
    => /\ OthersUnchanged(s)
       /\ IF Returned(h) = None
          THEN s \notin DOMAIN sticky_sessions'
          ELSE /\ s \in DOMAIN sticky_sessions'
               /\ sticky_sessions'[s] = Returned(h)

\* C17: every call of _get_server leaves the table as the claim says
C17_NoMappingOnUnavailability == [][C17_Step]_vars

\* sessions a and r1 were recorded, then every server failed its check; the
\* request of session a was answered 503 and its entry is gone, the entry of
\* r1 is still there
C17_Witness ==
  /\ HealthySet = {}
  /\ DOMAIN sticky_sessions = {"r1"}
  /\ sticky_sessions["r1"] = 2
  /\ current_index = 2
  /\ tasks[1].pc = "done" /\ tasks[1].response = Resp503
  /\ tasks[2].pc = "idle"

\* C18 (cache hit makes no new selection): a call of _get_server for a
\* session whose recorded server is healthy returns that server and leaves
\* current_index and the whole table unchanged.
C18_Step ==
  \A h \in Handlers : \A s \in SpecIds :
    (/\ Truthy(s)
     /\ CacheHit(s, servers, sticky_sessions)
     /\ Selected(h, s))
    => /\ Returned(h) = sticky_sessions[s]
       /\ current_index' = current_index
       /\ sticky_sessions' = sticky_sessions

\* C18: no cache hit moves the rotation
C18_CacheHit == [][C18_Step]_vars

\* session a was recorded on server 1 and has two requests in flight there;
\* the cursor has made its one step and the table has its one entry
C18_Witness ==
  /\ DOMAIN sticky_sessions = {"a"}
  /\ sticky_sessions["a"] = 1
  /\ HealthySet = 1..NumServers
  /\ current_index = 1
  /\ tasks[1].pc = "body" /\ tasks[1].server = 1
  /\ tasks[2].pc = "read" /\ tasks[2].server = 1

\* C19 (empty pool is fatal at startup): the pool always holds at least one
\* server; a balancer given an empty list is rejected at construction or at
\* start, and so never gets to take a request.
C19_EmptyPoolFatal ==
  (\E h \in Handlers : tasks[h].pc /= "idle") => Len(servers) >= 1

\* is handler h between its selection and its answer
InFlight(h) == tasks[h].pc \in {"read", "request", "body"}

\* C20 (the selection is not re-checked before forwarding): the server a
\* request is forwarded to is the one its selection returned, which was
\* healthy then. When the inbound body has been read the request goes to
\* that server also if the prober has marked it unhealthy in between; a
\* handler in flight makes no second selection, and after a failed call it
\* answers 502 without a try on another server.
C20_Step ==
  \A h \in Handlers :
    /\ (Started(h) /\ Returned(h) /= None) => servers[Returned(h)].is_healthy
    /\ (InFlight(h) /\ tasks'[h] /= tasks[h])
       => /\ current_index' = current_index
          /\ sticky_sessions' = sticky_sessions
          /\ IF tasks[h].pc = "read" /\ ~ProxyFails(h)
             THEN /\ tasks'[h].pc = "request"
                  /\ tasks'[h].server = tasks[h].server
             ELSE IF tasks[h].pc = "request" /\ ~ProxyFails(h)
             THEN /\ tasks'[h].pc = "body"
                  /\ tasks'[h].server = tasks[h].server
             ELSE tasks'[h].pc = "done"
    /\ tasks[h].pc = "done" => tasks'[h].pc \in {"done", "idle"}

\* C20: every step of a handler in flight keeps the server of its selection
C20_NoRecheck == [][C20_Step]_vars

\* the request was given server 1; the prober has marked server 1 unhealthy
\* and is at server 2; the request has been sent to server 1 all the same,
\* with servers 2 and 3 healthy and the cursor still at 1
C20_Witness ==
  /\ tasks[1].pc = "request" /\ tasks[1].server = 1
  /\ tasks[2].pc = "idle"
  /\ HealthySet = {2, 3}
  /\ probing = 2
  /\ current_index = 1

====
